---------------------------- MODULE Spec2Model ----------------------------
(***************************************************************************)
(* Typographic segmentation of court-opinion PDFs (LEE-I-HUA/CopyRight).   *)
(*                                                                         *)
(*   footnote.py  extract_footnotes      footnote accumulator              *)
(*                find_no_for_page       page-range resolver               *)
(*                process_pdfs_with_no   batched upserts                   *)
(*   opinion.py   main extraction loop   opinion accumulator               *)
(*   index_preprocess.py  build_updates, run    marker and date cleanup    *)
(*   lexis_metadata_extractor.py  extract_case_metadata_from_page,         *)
(*                extract_section, extract_case_title_by_font              *)
(*                                                                         *)
(* The document reader (PyMuPDF) is the environment: it hands the          *)
(* programs pages, blocks, lines and spans, which the actions draw from    *)
(* small sets.  A text is a sequence of one-character strings, so that     *)
(* str.strip, str.endswith and the regular expressions are computed and    *)
(* not assumed.                                                            *)
(***************************************************************************)
EXTENDS Integers, Sequences, FiniteSets, TLC

VARIABLES
    prog,            \* which script or function runs
    pc,              \* position in the nested loops of the running script
    page_num,        \* footnote.py:88 / opinion.py:73  0-based page index, -1 before the loop
    npages,          \* footnote.py:88 / opinion.py:73  len(doc)
    last_line,       \* footnote.py:123  line_num == len(b["lines"]) - 1 for the current line
    span,            \* footnote.py:98   spans[i], NoSpan when the line is exhausted
    next_span,       \* footnote.py:105  spans[i + 1], NoSpan when i == len(spans) - 1
    nspans,          \* spans the reader has handed out so far
    nlines,          \* lines the reader has handed out so far
    rows,            \* footnote.py:84
    collecting,      \* footnote.py:85
    footnote_text,   \* footnote.py:86
    opening,         \* history: the content captured at footnote.py:121 for the open footnote
    opened,          \* history: how many footnotes footnote.py:120 has opened
    opinion_started,       \* opinion.py:43
    page_text,             \* opinion.py:44
    urls_dic_accumulated,  \* opinion.py:45
    opinion_id,            \* opinion.py:46
    start_page_1based,     \* opinion.py:47
    collection,            \* opinion.py:15  the records insert_one has stored, in order
    index_col,             \* footnote.py:39  the documents of db[INDEX_COL], in find() order
    index_ranges,          \* footnote.py:143 what load_index_ranges returned
    query,                 \* footnote.py:159 the (pdf, page) last looked up
    no_value,              \* footnote.py:159 what find_no_for_page returned for it
    run,                   \* 0: a single run; 1, 2: first and second run on one document
    trace,                 \* history: what the reader handed out during the first run
    nread,                 \* how many reads the current run has made
    first_run,             \* history: what the first run emitted
    pdf_i,                 \* footnote.py:151 index of filename in pdf_files, 0 before the loop
    cursor,                \* index_preprocess.py:204 the documents col.find(query) yields
    seen,                  \* index_preprocess.py:207
    ops,                   \* footnote.py:148 / index_preprocess.py:206
    store,                 \* the documents of the collection bulk_write works on
    bulk_calls,            \* history: the batches handed to bulk_write, in call order
    generated,             \* history: the operations appended to ops, in order
    call,                  \* the arguments a function is called with
    result,                \* what it returned or raised
    passes,                \* how many times the function was applied
    pages_read             \* history: the pages whose text or blocks were read, in order

readervars == <<page_num, npages, last_line, span, next_span, nspans, nlines>>
footvars == <<rows, collecting, footnote_text, opening, opened>>
opvars == <<opinion_started, page_text, urls_dic_accumulated, opinion_id,
            start_page_1based, collection>>
resvars == <<index_col, index_ranges, query, no_value>>
runvars == <<run, trace, nread, first_run>>
batchvars == <<pdf_i, cursor, seen, ops, store, bulk_calls, generated>>
callvars == <<call, result, passes, pages_read>>

vars == <<prog, pc, readervars, footvars, opvars, resvars, runvars, batchvars,
          callvars>>

-----------------------------------------------------------------------------
(* Bounds of the model *)

MaxPages == 2
MaxLines == 2
MaxSpans == 4

-----------------------------------------------------------------------------
(* Texts *)

IsSpace(c) == c \in {" "}

Upper == {"A", "B", "C", "D", "E", "F", "G", "H", "I", "J", "K", "L", "M",
          "N", "O", "P", "Q", "R", "S", "T", "U", "V", "W", "X", "Y", "Z"}

RECURSIVE LStrip(_)
LStrip(s) == IF s # <<>> /\ IsSpace(Head(s)) THEN LStrip(Tail(s)) ELSE s

RECURSIVE RStrip(_)
RStrip(s) == IF s # <<>> /\ IsSpace(s[Len(s)])
             THEN RStrip(SubSeq(s, 1, Len(s) - 1)) ELSE s

\* str.strip(): leading and trailing whitespace removed
Strip(s) == RStrip(LStrip(s))

\* text.endswith(".")
EndsWithPeriod(s) == s # <<>> /\ s[Len(s)] = "."

\* re.match(r"^[A-Z]", next_text)
StartsUpper(s) == s # <<>> /\ Head(s) \in Upper

IsPrefix(p, s) == Len(p) <= Len(s) /\ SubSeq(s, 1, Len(p)) = p

-----------------------------------------------------------------------------
(* The document reader: spans of a line, with one span of lookahead *)

\* Python's None (a start page not yet set, a unit not found); pages and units
\* are numbered from 1
None == 0

NoSpan == [font |-> "", size |-> 0, text |-> <<"<none>">>]

Span(f, z, t) == [font |-> f, size |-> z, text |-> t]

\* The spans a footnote page is made of: the superscript marker, a marker that
\* ends a sentence, body text that resumes with a capital, body text that ends
\* a sentence, a marker-sized span in another font, blank and empty spans.
FootPalette ==
    { Span("Helvetica", 6, <<"1">>),
      Span("Helvetica", 6, <<" ", "2", ".">>),
      Span("Helvetica", 9, <<"A", "b", " ">>),
      Span("Times", 9, <<"c", ".">>),
      Span("Times", 6, <<"3">>),
      Span("Helvetica", 10, <<" ">>),
      Span("Times", 9, <<>>) }

\* The spans of a footnote page that is read twice: the marker, and body text
\* that is a whole sentence.
FootPaletteTwice ==
    { Span("Helvetica", 6, <<"1">>),
      Span("Times", 9, <<"A", ".">>) }

\* The spans the footnote reader hands out
FootSpans == IF run = 0 THEN FootPalette ELSE FootPaletteTwice

\* What the reader may hand out next, given the spans handed out so far
Upcoming(palette, n) == IF n < MaxSpans THEN palette \cup {NoSpan} ELSE {NoSpan}

\* What the reader hands out: the first run on a document records it, the
\* second run on the unchanged document is handed the same
Replay(answer) ==
    CASE run = 0 -> UNCHANGED <<trace, nread>>
      [] run = 1 -> trace' = Append(trace, answer) /\ nread' = nread + 1
      [] run = 2 -> /\ nread < Len(trace)
                    /\ answer = trace[nread + 1]
                    /\ nread' = nread + 1
                    /\ UNCHANGED trace

\* footnote.py:88-98  one answer of page.get_text("dict"): whether a block
\* follows, a line with its first two spans, or the span after the next
FootReads(what, ll, sp, nx) ==
    Replay([what |-> what, last_line |-> ll, span |-> sp, next_span |-> nx])

-----------------------------------------------------------------------------
(* footnote.py: extract_footnotes *)

TARGET_FONT == "Helvetica"
SIZE1 == 6
SIZE2 == 9

\* footnote.py:104-106  the punctuation heuristic that closes an open footnote
ClosesHere(c, sp, nx) ==
    /\ c
    /\ nx # NoSpan
    /\ EndsWithPeriod(sp.text)
    /\ StartsUpper(nx.text)

\* footnote.py:113-119  the start signature, evaluated after the collecting branch
StartsHere(c, sp, nx) ==
    /\ ~c
    /\ sp.font = TARGET_FONT
    /\ sp.size = SIZE1
    /\ nx # NoSpan
    /\ nx.size = SIZE2

\* a start branch that forgets to strip the following span
InitialContent_Unstripped(text, next_text) == text \o <<" ">> \o next_text

\* footnote.py:121  marker text, one space, the following span's stripped text
InitialContent(text, next_text) == text \o <<" ">> \o Strip(next_text)

\* footnote.py:111  footnote_text += " " + text
Continued(ft, text) == ft \o <<" ">> \o text

\* a close that appends the triggering span before it emits
ClosedText_WithTrigger(ft, text) == ft \o <<" ">> \o text

\* footnote.py:107  the punctuation close emits the buffer as it stands: the
\* triggering span is skipped by the continue of line 110
ClosedText(ft, text) == ft

\* a block-end test against len(b["lines"]): never true
ClosesAtLineEnd_OffByOne(c, ll) == FALSE

\* footnote.py:123  collecting and line_num == len(b["lines"]) - 1
ClosesAtLineEnd(c, ll) == c /\ ll

\* a row that carries the 0-based page index
Emitted_ZeroBased(rs, pn, ft) == Append(rs, <<pn, Strip(ft)>>)

\* footnote.py:107, 124, 129  rows.append((page_num + 1, footnote_text.strip()))
Emitted(rs, pn, ft) == Append(rs, <<pn + 1, Strip(ft)>>)

\* footnote.py:98  the for loop moves on to the next span of the line
Advance ==
    /\ span' = next_span
    /\ IF next_span = NoSpan
       THEN next_span' = NoSpan /\ nspans' = nspans /\ UNCHANGED <<trace, nread>>
       ELSE \E nx \in Upcoming(FootSpans, nspans) :
                /\ next_span' = nx
                /\ nspans' = IF nx = NoSpan THEN nspans ELSE nspans + 1
                /\ FootReads("span", last_line, next_span, nx)

\* footnote.py:98-121  one iteration of the span loop
FootSpan ==
    /\ prog = "footnote" /\ pc = "span" /\ span # NoSpan
    /\ IF ClosesHere(collecting, span, next_span)
       THEN /\ rows' = Emitted(rows, page_num, ClosedText(footnote_text, span.text))
            /\ collecting' = FALSE
            /\ footnote_text' = <<>>
            /\ opening' = <<>>
            /\ opened' = opened
       ELSE /\ rows' = rows
            /\ IF StartsHere(collecting, span, next_span)
               THEN /\ collecting' = TRUE
                    /\ footnote_text' = InitialContent(span.text, next_span.text)
                    /\ opening' = InitialContent(span.text, next_span.text)
                    /\ opened' = opened + 1
               ELSE /\ collecting' = collecting
                    /\ footnote_text' = IF collecting
                                        THEN Continued(footnote_text, span.text)
                                        ELSE footnote_text
                    /\ opening' = opening
                    /\ opened' = opened
    /\ Advance
    /\ UNCHANGED <<prog, pc, page_num, npages, last_line, nlines, opvars, resvars,
                   run, first_run, batchvars, callvars>>

\* footnote.py:123-126  after the spans of a line: the block-end close
FootEndLine ==
    /\ prog = "footnote" /\ pc = "span" /\ span = NoSpan
    /\ IF ClosesAtLineEnd(collecting, last_line)
       THEN /\ rows' = Emitted(rows, page_num, footnote_text)
            /\ collecting' = FALSE
            /\ footnote_text' = <<>>
            /\ opening' = <<>>
            /\ opened' = opened
       ELSE UNCHANGED <<rows, collecting, footnote_text, opening, opened>>
    /\ pc' = IF last_line THEN "block" ELSE "line"
    /\ UNCHANGED <<prog, readervars, opvars, resvars, runvars, batchvars,
                   callvars>>

\* footnote.py:96-97  the reader hands out the next line of the block
FootLine ==
    /\ prog = "footnote" /\ pc = "line"
    /\ \E ll \in BOOLEAN, sp \in Upcoming(FootSpans, nspans) :
         /\ (nlines + 1 >= MaxLines) => ll
         /\ last_line' = ll
         /\ span' = sp
         /\ \E nx \in Upcoming(FootSpans, nspans + 1) :
              /\ (sp = NoSpan) => (nx = NoSpan)
              /\ next_span' = nx
              /\ nspans' = nspans + (IF sp = NoSpan THEN 0 ELSE 1)
                                   + (IF nx = NoSpan THEN 0 ELSE 1)
              /\ FootReads("line", ll, sp, nx)
    /\ nlines' = nlines + 1
    /\ pc' = "span"
    /\ UNCHANGED <<prog, page_num, npages, footvars, opvars, resvars, run, first_run,
                   batchvars, callvars>>

\* footnote.py:92-96  a block that has lines
FootBlock ==
    /\ prog = "footnote" /\ pc = "block" /\ nlines < MaxLines
    /\ pc' = "line"
    /\ FootReads("block", FALSE, NoSpan, NoSpan)
    /\ UNCHANGED <<prog, readervars, footvars, opvars, resvars, run, first_run,
                   batchvars, callvars>>

\* footnote.py:93-94  a block without lines (an image), or with none
FootSkipBlock ==
    /\ prog = "footnote" /\ pc = "block"
    /\ UNCHANGED vars

\* footnote.py:92  the blocks of the page are exhausted
FootEndPage ==
    /\ prog = "footnote" /\ pc = "block"
    /\ pc' = "page"
    /\ FootReads("end", FALSE, NoSpan, NoSpan)
    /\ UNCHANGED <<prog, readervars, footvars, opvars, resvars, run, first_run,
                   batchvars, callvars>>

\* footnote.py:88-90  the next page is loaded
FootPage ==
    /\ prog = "footnote" /\ pc = "page" /\ page_num + 1 < npages
    /\ page_num' = page_num + 1
    /\ pc' = "block"
    /\ UNCHANGED <<prog, npages, last_line, span, next_span, nspans, nlines,
                   footvars, opvars, resvars, runvars, batchvars, callvars>>

\* footnote.py:128-132  after the last page: the end-of-document flush
FootFinalize ==
    /\ prog = "footnote" /\ pc = "page" /\ page_num + 1 = npages
    /\ rows' = IF collecting /\ Strip(footnote_text) # <<>>
               THEN Emitted(rows, page_num, footnote_text)
               ELSE rows
    /\ pc' = "done"
    /\ UNCHANGED <<prog, readervars, collecting, footnote_text, opening, opened,
                   opvars, resvars, runvars, batchvars, callvars>>

\* the reader before the page loop; fitz.open fixes the number of pages
ReaderInit ==
    /\ page_num = -1
    /\ npages \in 0..MaxPages
    /\ last_line = FALSE
    /\ span = NoSpan
    /\ next_span = NoSpan
    /\ nspans = 0
    /\ nlines = 0

\* footnote.py:84-86
FootIdle ==
    /\ rows = <<>>
    /\ collecting = FALSE
    /\ footnote_text = <<>>
    /\ opening = <<>>
    /\ opened = 0

\* opinion.py:43-47
OpIdle ==
    /\ opinion_started = FALSE
    /\ page_text = <<>>
    /\ urls_dic_accumulated = <<>>
    /\ opinion_id = 0
    /\ start_page_1based = None
    /\ collection = <<>>

\* the resolver before load_index_ranges
ResIdle ==
    /\ index_col = <<>>
    /\ index_ranges = <<>>
    /\ query = <<>>
    /\ no_value = None

\* a single run of a script on a document, nothing recorded
RunIdle ==
    /\ run = 0
    /\ trace = <<>>
    /\ nread = 0
    /\ first_run = <<>>

\* no batched write in progress
BatchIdle ==
    /\ pdf_i = 0
    /\ cursor = <<>>
    /\ seen = 0
    /\ ops = <<>>
    /\ store = {}
    /\ bulk_calls = <<>>
    /\ generated = <<>>

\* no function applied
CallIdle ==
    /\ call = <<>>
    /\ result = <<>>
    /\ passes = 0
    /\ pages_read = <<>>

\* footnote.py:83-86
FootInit ==
    /\ prog = "footnote"
    /\ pc = "page"
    /\ ReaderInit
    /\ FootIdle
    /\ OpIdle
    /\ ResIdle
    /\ RunIdle
    /\ BatchIdle
    /\ CallIdle

FootNext ==
    \/ FootSpan
    \/ FootEndLine
    \/ FootLine
    \/ FootBlock
    \/ FootSkipBlock
    \/ FootEndPage
    \/ FootPage
    \/ FootFinalize

SpecFoot == FootInit /\ [][FootNext]_vars

-----------------------------------------------------------------------------
(* opinion.py: the opinion accumulator *)

\* An opinion text is a sequence of atoms: a blank, a word, or one of the
\* phrases the patterns search for.
OPINION == "Opinion"
END_OF_DOCUMENT == "End of Document"
PAGE_MARKER == "Page 3 of 25"

\* re.search(pattern, text)
Has(text, w) == \E k \in 1..Len(text) : text[k] = w

\* re.sub(pattern, "", text)
RECURSIVE Remove(_, _)
Remove(text, w) ==
    IF text = <<>> THEN <<>>
    ELSE IF Head(text) = w THEN Remove(Tail(text), w)
    ELSE <<Head(text)>> \o Remove(Tail(text), w)

pdf_name == "cp01.pdf"

\* The spans an opinion page is made of: the section header, a header that
\* also carries the end marker, body text, a page-number artifact in body
\* type, body text that carries the end marker, the end marker in another
\* type, text that is not body type, a blank span in body type.
OpPalette ==
    { Span("Helvetica-Bold", 14, <<OPINION>>),
      Span("Helvetica-Bold", 14, <<OPINION, " ", END_OF_DOCUMENT>>),
      Span("Helvetica", 10, <<" ", "x", " ">>),
      Span("Helvetica-Oblique", 10, <<PAGE_MARKER>>),
      Span("Helvetica", 10, <<"y", " ", END_OF_DOCUMENT>>),
      Span("Times", 12, <<END_OF_DOCUMENT>>),
      Span("Times", 10, <<"z">>),
      Span("Helvetica", 10, <<" ">>) }

\* page.get_links(): a link annotation with a URI, one without, or none
Annotations(p) ==
    { <<>>,
      << [uri |-> p, text |-> <<" ", "a">>] >>,
      << [uri |-> None, text |-> <<"b">>] >> }

\* page.get_links() of a page that is read twice: a link with a URI, or none
AnnotationsTwice(p) ==
    { <<>>,
      << [uri |-> p, text |-> <<" ", "a">>] >> }

\* The links the opinion reader hands out for page p
Links(p) == IF run = 0 THEN Annotations(p) ELSE AnnotationsTwice(p)

\* opinion.py:52-67  get_page_links: the URI links, anchor text stripped
RECURSIVE get_page_links(_)
get_page_links(links) ==
    IF links = <<>> THEN <<>>
    ELSE (IF Head(links).uri # None
          THEN << [raw_text |-> Strip(Head(links).text), link |-> Head(links).uri] >>
          ELSE <<>>) \o get_page_links(Tail(links))

\* opinion.py:99  the header signature
IsHeader(sp) ==
    /\ sp.size = 14
    /\ sp.font = "Helvetica-Bold"
    /\ Has(Strip(sp.text), OPINION)

\* opinion.py:125-129  the body signature
IsBody(sp) ==
    /\ sp.size = 10
    /\ sp.font \in {"Helvetica", "Helvetica-BoldOblique", "Helvetica-Oblique"}

\* opinion.py:138  the end marker
IsEnd(sp) == Has(Strip(sp.text), END_OF_DOCUMENT)

\* body text that is collected whether or not an opinion is open
Collects_WhileIdle(started, sp, text) == IsBody(sp) /\ text # <<>>

\* opinion.py:125-130  body text is collected only while an opinion is open
Collects(started, sp, text) == started /\ IsBody(sp) /\ text # <<>>

\* a header that closes the open opinion whether or not it has text
SupersedeEmits_Always(started, pt) == started

\* opinion.py:101  the open opinion is saved only when it has text
SupersedeEmits(started, pt) == started /\ Strip(pt) # <<>>

\* a superseded opinion that ends on the header's own page
SupersedeEndPage_Same(p) == p

\* opinion.py:106  "end_page": page_1based - 1
SupersedeEndPage(p) == p - 1

\* an end marker left in the content
EndContent_Kept(pt) == Strip(pt)

\* opinion.py:139  the end marker removed from the accumulated text
EndContent(pt) == Strip(Remove(pt, END_OF_DOCUMENT))

\* an identifier that is not advanced
NextId_Same(id) == id

\* opinion.py:110, 148  opinion_id += 1
NextId(id) == id + 1

\* a final record that ends on the page before the last
FinalEndPage_Short(n) == n - 1

\* opinion.py:162  "end_page": len(doc)
FinalEndPage(n) == n

\* opinion.py:131-133  the text appended, page-number artifacts removed
Appended(pt, text) == Strip(Remove(pt \o <<" ">> \o text, PAGE_MARKER))

\* a record whose identifier is the number of records the collection holds
Record_CountsStore(id, start, end, content, urls) ==
    [pdf |-> pdf_name, opinion_id |-> Len(collection), start_page |-> start,
     end_page |-> end, content |-> content, urls_dic |-> urls]

\* opinion.py:102-109, 140-147, 158-165  the record handed to insert_one
Record(id, start, end, content, urls) ==
    [pdf |-> pdf_name, opinion_id |-> id, start_page |-> start,
     end_page |-> end, content |-> content, urls_dic |-> urls]

\* The spans of an opinion page that is read twice: the section header, body
\* text, body text that carries the end marker.
OpPaletteTwice ==
    { Span("Helvetica-Bold", 14, <<OPINION>>),
      Span("Helvetica", 10, <<" ", "x", " ">>),
      Span("Helvetica", 10, <<"y", " ", END_OF_DOCUMENT>>) }

\* The spans the opinion reader hands out
OpSpans == IF run = 0 THEN OpPalette ELSE OpPaletteTwice

\* opinion.py:72-87  one answer of fitz: the links of a page that is loaded and
\* the next span of the page
Reads(links, nx) == Replay([links |-> links, span |-> nx])

\* opinion.py:87  the for loop moves on to the next span of the page
OpAdvance(links) ==
    \E nx \in Upcoming(OpSpans, nspans) :
        /\ span' = nx
        /\ nspans' = IF nx = NoSpan THEN nspans ELSE nspans + 1
        /\ Reads(links, nx)

\* opinion.py:87-151  one iteration of the span loop
OpSpan ==
    /\ prog = "opinion" /\ pc = "span" /\ span # NoSpan
    /\ LET text == Strip(span.text)
           page_1based == page_num + 1
       IN  IF IsHeader(span)
           THEN /\ IF SupersedeEmits(opinion_started, page_text)
                   THEN /\ collection' = Append(collection,
                               Record(opinion_id, start_page_1based,
                                      SupersedeEndPage(page_1based),
                                      Strip(page_text), urls_dic_accumulated))
                        /\ opinion_id' = NextId(opinion_id)
                        /\ page_text' = <<>>
                        /\ urls_dic_accumulated' = <<>>
                   ELSE UNCHANGED <<collection, opinion_id, page_text,
                                    urls_dic_accumulated>>
                /\ opinion_started' = TRUE
                /\ start_page_1based' = page_1based
           ELSE LET body == IF Collects(opinion_started, span, text)
                            THEN Appended(page_text, text)
                            ELSE page_text
                IN  IF opinion_started /\ IsEnd(span)
                    THEN /\ collection' = Append(collection,
                                Record(opinion_id, start_page_1based, page_1based,
                                       EndContent(body), urls_dic_accumulated))
                         /\ opinion_id' = NextId(opinion_id)
                         /\ opinion_started' = FALSE
                         /\ page_text' = <<>>
                         /\ urls_dic_accumulated' = <<>>
                         /\ UNCHANGED start_page_1based
                    ELSE /\ page_text' = body
                         /\ UNCHANGED <<collection, opinion_id, opinion_started,
                                        urls_dic_accumulated, start_page_1based>>
    /\ OpAdvance(<<>>)
    /\ UNCHANGED <<prog, pc, page_num, npages, last_line, next_span, nlines,
                   footvars, resvars, run, first_run, batchvars, callvars>>

\* opinion.py:82-87  the spans of the page are exhausted
OpEndPage ==
    /\ prog = "opinion" /\ pc = "span" /\ span = NoSpan
    /\ pc' = "page"
    /\ UNCHANGED <<prog, readervars, footvars, opvars, resvars, runvars,
                   batchvars, callvars>>

\* opinion.py:73-81  the next page is loaded and its links are accumulated
OpPage ==
    /\ prog = "opinion" /\ pc = "page" /\ page_num + 1 < npages
    /\ page_num' = page_num + 1
    /\ \E links \in Links(page_num + 2) :
         /\ urls_dic_accumulated' = urls_dic_accumulated \o get_page_links(links)
         /\ OpAdvance(links)
    /\ pc' = "span"
    /\ UNCHANGED <<prog, npages, last_line, next_span, nlines, footvars, resvars,
                   run, first_run, batchvars, callvars, opinion_started, page_text,
                   opinion_id, start_page_1based, collection>>

\* opinion.py:157-170  after the last page: the unfinished opinion is saved
OpFinalize ==
    /\ prog = "opinion" /\ pc = "page" /\ page_num + 1 = npages
    /\ collection' = IF opinion_started /\ Strip(page_text) # <<>>
                     THEN Append(collection,
                              Record(opinion_id, start_page_1based,
                                     FinalEndPage(npages), Strip(page_text),
                                     urls_dic_accumulated))
                     ELSE collection
    /\ pc' = "done"
    /\ UNCHANGED <<prog, readervars, footvars, resvars, runvars, batchvars,
                   callvars, opinion_started, page_text, urls_dic_accumulated,
                   opinion_id, start_page_1based>>

\* opinion.py:38-47
OpInit ==
    /\ prog = "opinion"
    /\ pc = "page"
    /\ ReaderInit
    /\ FootIdle
    /\ OpIdle
    /\ ResIdle
    /\ RunIdle
    /\ BatchIdle
    /\ CallIdle

OpNext ==
    \/ OpSpan
    \/ OpEndPage
    \/ OpPage
    \/ OpFinalize

SpecOp == OpInit /\ [][OpNext]_vars

\* opinion.py:38-47  the script is started again on the unchanged document:
\* its variables are initialised anew, the collection in the store is as the
\* first run left it, and fitz hands out what it handed out before
OpRestart ==
    /\ prog = "opinion" /\ pc = "done" /\ run = 1
    /\ run' = 2
    /\ nread' = 0
    /\ first_run' = collection
    /\ pc' = "page"
    /\ page_num' = -1
    /\ span' = NoSpan
    /\ nspans' = 0
    /\ opinion_started' = FALSE
    /\ page_text' = <<>>
    /\ urls_dic_accumulated' = <<>>
    /\ opinion_id' = 0
    /\ start_page_1based' = None
    /\ UNCHANGED <<prog, npages, last_line, next_span, nlines, collection, trace,
                   footvars, resvars, batchvars, callvars>>

\* opinion.py:38-47  the first of two runs on one document
RerunInit ==
    /\ prog = "opinion"
    /\ pc = "page"
    /\ ReaderInit
    /\ FootIdle
    /\ OpIdle
    /\ ResIdle
    /\ run = 1
    /\ trace = <<>>
    /\ nread = 0
    /\ first_run = <<>>
    /\ BatchIdle
    /\ CallIdle

\* footnote.py:79-86  extract_footnotes is called again on the unchanged
\* document: its locals are initialised anew and fitz hands out what it handed
\* out before
FootRestart ==
    /\ prog = "footnote" /\ pc = "done" /\ run = 1
    /\ run' = 2
    /\ nread' = 0
    /\ first_run' = rows
    /\ pc' = "page"
    /\ page_num' = -1
    /\ last_line' = FALSE
    /\ span' = NoSpan
    /\ next_span' = NoSpan
    /\ nspans' = 0
    /\ nlines' = 0
    /\ rows' = <<>>
    /\ collecting' = FALSE
    /\ footnote_text' = <<>>
    /\ opening' = <<>>
    /\ opened' = 0
    /\ UNCHANGED <<prog, npages, trace, opvars, resvars, batchvars, callvars>>

\* footnote.py:79-86  the first of two calls on one document
FootRerunInit ==
    /\ prog = "footnote"
    /\ pc = "page"
    /\ ReaderInit
    /\ FootIdle
    /\ OpIdle
    /\ ResIdle
    /\ run = 1
    /\ trace = <<>>
    /\ nread = 0
    /\ first_run = <<>>
    /\ BatchIdle
    /\ CallIdle

RerunNext ==
    \/ OpNext
    \/ OpRestart
    \/ FootNext
    \/ FootRestart

\* a segmentation script run twice on one document; the opinion script runs
\* against one collection
SpecRerun == (RerunInit \/ FootRerunInit) /\ [][RerunNext]_vars

\* either segmentation script on one document
SpecSeg == (FootInit \/ OpInit) /\ [][FootNext \/ OpNext]_vars

-----------------------------------------------------------------------------
(* footnote.py: the page-range resolver *)

MaxRanges == 3

Entry(pdf, page, end_page, No) ==
    [pdf |-> pdf, page |-> page, end_page |-> end_page, No |-> No]

\* a document of index_todo without a pdf name (idx.get("pdf") is falsy)
NoPdf == ""

\* The documents index_todo is made of.  Every one carries its start page, as
\* lexis_metadata_extractor.py writes it; units are numbered from 1, and
\* units 1 and 2 are the ranges 1-10 and 11-open of one document.
IndexPalette ==
    { Entry("a.pdf", 1, 10, 1),
      Entry("a.pdf", 11, None, 2),
      Entry("a.pdf", 3, None, 3),
      Entry("a.pdf", 11, 12, 4),
      Entry("b.pdf", 1, None, 5),
      Entry(NoPdf, 1, None, 6) }

QueryPdfs == {"a.pdf", "b.pdf", "c.pdf"}
QueryPages == {0, 1, 5, 10, 11, 15}

\* the collections of at most MaxRanges distinct index documents
IndexCols ==
    UNION { { c \in [1..n -> IndexPalette] :
                \A i, j \in 1..n : i # j => c[i] # c[j] } : n \in 0..MaxRanges }

\* footnote.py:44-49  the entries of one pdf, in find() order
RECURSIVE EntriesOf(_, _)
EntriesOf(col, pdf) ==
    IF col = <<>> THEN <<>>
    ELSE (IF Head(col).pdf = pdf
          THEN << [No |-> Head(col).No, start |-> Head(col).page,
                   end |-> Head(col).end_page] >>
          ELSE <<>>) \o EntriesOf(Tail(col), pdf)

\* list.sort(key=start) is stable: an entry goes behind those that start no later
RECURSIVE InsertByStart(_, _)
InsertByStart(sorted, e) ==
    IF sorted = <<>> THEN <<e>>
    ELSE IF Head(sorted).start <= e.start
         THEN <<Head(sorted)>> \o InsertByStart(Tail(sorted), e)
         ELSE <<e>> \o sorted

RECURSIVE SortedByStart(_)
SortedByStart(entries) ==
    IF entries = <<>> THEN <<>>
    ELSE InsertByStart(SortedByStart(SubSeq(entries, 1, Len(entries) - 1)),
                       entries[Len(entries)])

\* ranges left in find() order
RangesOf_Unsorted(entries) == entries

\* footnote.py:52-53  the ranges of a pdf, sorted by start page
RangesOf(entries) == SortedByStart(entries)

\* footnote.py:28-55
load_index_ranges(col) ==
    [pdf \in {col[k].pdf : k \in 1..Len(col)} \ {NoPdf}
        |-> RangesOf(EntriesOf(col, pdf))]

\* footnote.py:66-71  the range holds the page
Covers(r, page) ==
    IF r.end # None THEN r.start <= page /\ page <= r.end
                    ELSE page >= r.start

\* footnote.py:65-73  the first range, in list order, that holds the page
RECURSIVE FirstCovering(_, _)
FirstCovering(ranges, page) ==
    IF ranges = <<>> THEN None
    ELSE IF Covers(Head(ranges), page) THEN Head(ranges).No
    ELSE FirstCovering(Tail(ranges), page)

\* footnote.py:58-73
find_no_for_page(ranges, pdf, page) ==
    IF pdf \notin DOMAIN ranges THEN None
    ELSE FirstCovering(ranges[pdf], page)

\* footnote.py:143  index_ranges = load_index_ranges(db)
ResLoad ==
    /\ prog = "resolver" /\ pc = "load"
    /\ index_ranges' = load_index_ranges(index_col)
    /\ pc' = "query"
    /\ UNCHANGED <<prog, readervars, footvars, opvars, runvars, batchvars,
                   callvars, index_col, query, no_value>>

\* footnote.py:159  no_value = find_no_for_page(index_ranges, filename, page)
ResQuery ==
    /\ prog = "resolver" /\ pc = "query"
    /\ \E pdf \in QueryPdfs, page \in QueryPages :
         /\ query' = <<pdf, page>>
         /\ no_value' = find_no_for_page(index_ranges, pdf, page)
    /\ UNCHANGED <<prog, pc, readervars, footvars, opvars, runvars, batchvars,
                   callvars, index_col, index_ranges>>

\* footnote.py:139-143  the index collection as the run finds it
ResInit ==
    /\ prog = "resolver"
    /\ pc = "load"
    /\ page_num = -1 /\ npages = 0 /\ last_line = FALSE
    /\ span = NoSpan /\ next_span = NoSpan /\ nspans = 0 /\ nlines = 0
    /\ FootIdle
    /\ OpIdle
    /\ index_col \in IndexCols
    /\ index_ranges = <<>>
    /\ query = <<>>
    /\ no_value = None
    /\ RunIdle
    /\ BatchIdle
    /\ CallIdle

ResNext ==
    \/ ResLoad
    \/ ResQuery

SpecRes == ResInit /\ [][ResNext]_vars

-----------------------------------------------------------------------------
(* index_preprocess.py: marker cleaning and date conversion *)

MaxPasses == 3

\* A field value carries its Python type: str, list of str, datetime, list
\* of datetime or None.  v is a sequence of texts: one text for a str, the
\* items for a list, the date for a datetime.  A text to clean is a sequence
\* of characters; a date text is a sequence of atoms: a year, "/", a number,
\* ",", a blank or a word.
Str(s) == [t |-> "str", v |-> <<s>>]
StrList(xs) == [t |-> "list[str]", v |-> xs]
Datetime(d) == [t |-> "datetime", v |-> <<d>>]
DatetimeList(ds) == [t |-> "list[datetime]", v |-> ds]
NoneValue == [t |-> "None", v |-> <<>>]

CLEAN_FIELDS == {"prior history", "subsequent history", "opinion by", "judges"}
DATE_FIELDS == {"Decided", "Others", "Argued"}

Digits == {"0", "1", "2", "3", "4", "5", "6", "7", "8", "9"}

\* the first position from i on whose character is not in the class
RECURSIVE SkipWhile(_, _, _)
SkipWhile(text, i, class) ==
    IF i <= Len(text) /\ text[i] \in class THEN SkipWhile(text, i + 1, class)
    ELSE i

\* index_preprocess.py:56  FOOTNOTE_PATTERN matched at position i: the position
\* of the closing bracket, 0 when there is no match at i
MarkerEnd(text, i) ==
    LET stars == SkipWhile(text, i + 1, {"*"})
        digits == SkipWhile(text, stars, Digits)
    IN  IF /\ text[i] = "["
           /\ stars > i + 1
           /\ digits > stars
           /\ digits <= Len(text)
           /\ text[digits] = "]"
        THEN digits ELSE 0

\* FOOTNOTE_PATTERN.sub("", text): one pass from left to right, the matches
\* do not overlap and the result is not scanned again
RECURSIVE RemoveMarkers(_, _)
RemoveMarkers(text, i) ==
    IF i > Len(text) THEN <<>>
    ELSE IF MarkerEnd(text, i) # 0 THEN RemoveMarkers(text, MarkerEnd(text, i) + 1)
    ELSE <<text[i]>> \o RemoveMarkers(text, i + 1)

\* index_preprocess.py:62-64
clean_text(text) == Strip(RemoveMarkers(text, 1))

\* index_preprocess.py:67-81
clean_field(value) ==
    CASE value.t = "str" -> Str(clean_text(value.v[1]))
      [] value.t = "list[str]" ->
             StrList([k \in 1..Len(value.v) |-> clean_text(value.v[k])])
      [] OTHER -> value

Years == {"2024"}
Months == {"1", "01", "2"}
Days == {"1", "01", "2", "13"}

\* the number a field of strptime stands for, written without leading zero
Canon(n) == IF n = "01" THEN "1" ELSE n

\* index_preprocess.py:87-105  strptime(s, "%Y/%m/%d") on the stripped text
parse_date_str(text) ==
    LET s == Strip(text)
    IN  IF /\ Len(s) = 5
           /\ s[1] \in Years /\ s[2] = "/" /\ s[3] \in Months
           /\ s[4] = "/" /\ s[5] \in Days
        THEN Datetime(<<s[1], Canon(s[3]), Canon(s[5])>>)
        ELSE NoneValue

\* str.split(","): the pieces between the commas
RECURSIVE Split(_, _)
Split(text, piece) ==
    IF text = <<>> THEN <<piece>>
    ELSE IF Head(text) = "," THEN <<piece>> \o Split(Tail(text), <<>>)
    ELSE Split(Tail(text), Append(piece, Head(text)))

\* index_preprocess.py:124  [p.strip() for p in s.split(",") if p.strip()]
Parts(s) == SelectSeq([k \in 1..Len(Split(s, <<>>)) |-> Strip(Split(s, <<>>)[k])],
                      LAMBDA piece : piece # <<>>)

\* index_preprocess.py:133-137  the parts that parse, as datetimes
Parsed(parts) ==
    LET ok == SelectSeq(parts, LAMBDA piece : parse_date_str(piece) # NoneValue)
    IN  [k \in 1..Len(ok) |-> parse_date_str(ok[k]).v[1]]

\* index_preprocess.py:108-143  (new_value, changed?)
parse_others_field(value) ==
    IF value.t # "str" THEN <<value, FALSE>>
    ELSE LET s == Strip(value.v[1])
         IN  IF s = <<>> THEN <<value, FALSE>>
             ELSE IF Len(Parts(s)) <= 1
                  THEN IF parse_date_str(s) # NoneValue
                       THEN <<parse_date_str(s), TRUE>>
                       ELSE <<value, FALSE>>
             ELSE IF Parsed(Parts(s)) = <<>> THEN <<value, FALSE>>
             ELSE <<DatetimeList(Parsed(Parts(s))), TRUE>>

\* index_preprocess.py:165-183  what a date field is converted to; the old
\* value when it is left alone
Converted(f, old_v) ==
    IF old_v.t = "datetime" THEN old_v
    ELSE IF f = "Others"
         THEN IF parse_others_field(old_v)[2] THEN parse_others_field(old_v)[1]
              ELSE old_v
    ELSE IF old_v.t = "str" /\ parse_date_str(old_v.v[1]) # NoneValue
         THEN parse_date_str(old_v.v[1])
    ELSE old_v

\* index_preprocess.py:149-185
build_updates(doc) ==
    LET cleaned == {f \in CLEAN_FIELDS \cap DOMAIN doc :
                        doc[f] # NoneValue /\ clean_field(doc[f]) # doc[f]}
        dated == {f \in DATE_FIELDS \cap DOMAIN doc : Converted(f, doc[f]) # doc[f]}
    IN  [f \in cleaned \cup dated |->
            IF f \in cleaned THEN clean_field(doc[f]) ELSE Converted(f, doc[f])]

\* {"$set": updates} applied to the document
Set(doc, updates) ==
    [f \in DOMAIN doc \cup DOMAIN updates |->
        IF f \in DOMAIN updates THEN updates[f] ELSE doc[f]]

A_DATE == <<"2024", "/", "1", "/", "2">>
PADDED_DATE == <<" ", "2024", "/", "01", "/", "02", " ">>

\* values of a cleaned field: missing, None, a text with a marker, a text
\* with a marker inside a marker, a text without, a list of texts
CleanValues ==
    { <<>>,
      <<NoneValue>>,
      <<Str(<<"a", " ", "[", "*", "1", "]">>)>>,
      <<Str(<<"[", "*", "[", "*", "1", "]", "2", "]", " ", "b">>)>>,
      <<Str(<<"c">>)>>,
      <<StrList(<< <<"d", "[", "*", "*", "1", "2", "]", " ">>, <<"e">> >>)>> }

\* values of Decided and Argued: missing, a date text, a padded date text
\* with leading zeros, a text that is no date, a datetime
DateValues ==
    { <<>>,
      <<Str(A_DATE)>>,
      <<Str(PADDED_DATE)>>,
      <<Str(<<"2024", "/", "13", "/", "1">>)>>,
      <<Datetime(<<"2024", "1", "2">>)>> }

\* values of Others: missing, two dates, one date, no date among two parts,
\* a date and a word, a blank text
OthersValues ==
    { <<>>,
      <<Str(A_DATE \o <<",", " ">> \o PADDED_DATE)>>,
      <<Str(A_DATE)>>,
      <<Str(<<"x", ",", "y">>)>>,
      <<Str(A_DATE \o <<",", "x">>)>>,
      <<Str(<<" ">>)>> }

\* the field f with the value, or no field when the value is missing
Field(f, value) == IF value = <<>> THEN <<>> ELSE f :> value[1]

\* The documents of the collection the cleanup runs over
Docs ==
    { ("_id" :> 1) @@ Field("judges", j) @@ Field("opinion by", o)
                   @@ Field("Decided", d) @@ Field("Argued", a)
                   @@ Field("Others", x) :
        j \in CleanValues,
        o \in {<<>>, <<Str(<<"[", "*", "3", "]">>)>>},
        d \in DateValues,
        a \in {<<>>, <<Str(A_DATE)>>},
        x \in OthersValues }

\* index_preprocess.py:191-227  one run over a document of the collection:
\* the document as the run before left it, and its updates
CleanupRun ==
    /\ prog = "cleanup" /\ passes < MaxPasses
    /\ LET doc == IF passes = 0 THEN call ELSE Set(call, result)
       IN  /\ call' = doc
           /\ result' = build_updates(doc)
    /\ passes' = passes + 1
    /\ UNCHANGED <<prog, pc, readervars, footvars, opvars, resvars, runvars,
                   batchvars, pages_read>>

\* a document of the collection before the first run
CleanupInit ==
    /\ prog = "cleanup"
    /\ pc = "run"
    /\ page_num = -1 /\ npages = 0 /\ last_line = FALSE
    /\ span = NoSpan /\ next_span = NoSpan /\ nspans = 0 /\ nlines = 0
    /\ FootIdle
    /\ OpIdle
    /\ ResIdle
    /\ RunIdle
    /\ BatchIdle
    /\ call \in Docs
    /\ result = <<>>
    /\ passes = 0
    /\ pages_read = <<>>

CleanupNext == CleanupRun

SpecCleanup == CleanupInit /\ [][CleanupNext]_vars

-----------------------------------------------------------------------------
(* footnote.py process_pdfs_with_no, index_preprocess.py run: batched writes *)

\* footnote.py:22 has 1000 and index_preprocess.py:39 has 500; the loops are
\* the same for any batch size, and the model takes a small one
BATCH_SIZE == 2

\* how many operations, and how many documents of the cursor, a run goes through
MaxOps == 5

\* footnote.py:145  the sorted names of the PDF files
pdf_files == <<"a.pdf", "c.pdf">>

\* pymongo UpdateOne(filter, {"$set": set}, upsert)
UpdateOne(filter, set, upsert) == [filter |-> filter, set |-> set, upsert |-> upsert]

\* the document has the fields with these values
Matches(doc, fields) == \A f \in DOMAIN fields : f \in DOMAIN doc /\ doc[f] = fields[f]

\* the store applies one UpdateOne: a matching document is updated, and
\* without one the upsert inserts the filter's fields with the update applied
ApplyOne(docs, op) ==
    LET hit == {d \in docs : Matches(d, op.filter)}
    IN  IF hit # {}
        THEN LET d == CHOOSE d \in hit : TRUE
             IN  (docs \ {d}) \cup {Set(d, op.set)}
        ELSE IF op.upsert THEN docs \cup {Set(op.filter, op.set)}
        ELSE docs

RECURSIVE ApplyAll(_, _)
ApplyAll(docs, batch) ==
    IF batch = <<>> THEN docs
    ELSE ApplyAll(ApplyOne(docs, Head(batch)), Tail(batch))

\* the operations of the batch at the positions of I, from position k on
RECURSIVE Picked(_, _, _)
Picked(batch, I, k) ==
    IF k > Len(batch) THEN <<>>
    ELSE (IF k \in I THEN <<batch[k]>> ELSE <<>>) \o Picked(batch, I, k + 1)

\* an exception of bulk_write that is caught and the run goes on
OnError_Swallowed(then) == then

\* footnote.py:178, 183 / index_preprocess.py:219, 224  nothing catches the
\* exception of bulk_write: it leaves the run
OnError(then) == "raised"

\* col.bulk_write(batch, ordered=False): it returns, with every operation
\* applied, or it raises, with any of the operations applied (an unordered
\* bulk goes on after an operation that fails)
BulkWrite(batch, then) ==
    /\ bulk_calls' = Append(bulk_calls, batch)
    /\ \/ /\ store' = ApplyAll(store, batch)
          /\ pc' = then
       \/ \E I \in SUBSET (1..Len(batch)) :
            /\ store' = ApplyAll(store, Picked(batch, I, 1))
            /\ pc' = OnError(then)

\* a buffer that is left as it is after the write
Cleared_Kept(buffer) == buffer

\* footnote.py:180 / index_preprocess.py:221  ops.clear()
Cleared(buffer) == <<>>

\* footnote.py:177-180 / index_preprocess.py:218-221  the buffer after an
\* append: written and cleared when it holds BATCH_SIZE operations
Flush(buffer) ==
    IF Len(buffer) >= BATCH_SIZE
    THEN /\ BulkWrite(buffer, "loop")
         /\ ops' = IF pc' = "raised" THEN buffer ELSE Cleared(buffer)
    ELSE /\ ops' = buffer
         /\ UNCHANGED <<pc, store, bulk_calls>>

\* footnote.py:182-184 / index_preprocess.py:223-225  after the loop: what is
\* left in the buffer is written; the list is not cleared
FinalWrite ==
    IF ops # <<>>
    THEN /\ BulkWrite(ops, "done")
         /\ UNCHANGED ops
    ELSE /\ pc' = "done"
         /\ UNCHANGED <<ops, store, bulk_calls>>

\* The rows extract_footnotes returns for the files: a row of a.pdf in unit
\* 1, a row of a.pdf in unit 2, a row of c.pdf, which the index does not know
WriteRows ==
    { [file |-> 1, page |-> 5, text |-> <<"f">>],
      [file |-> 1, page |-> 15, text |-> <<"g">>],
      [file |-> 2, page |-> 5, text |-> <<"f">>] }

\* footnote.py:158-180  one iteration of the row loop, of this file or of a
\* later one
WriteRow ==
    /\ prog = "process_pdfs_with_no" /\ pc = "loop"
    /\ Len(generated) < MaxOps
    /\ \E row \in WriteRows :
         /\ row.file >= pdf_i
         /\ pdf_i' = row.file
         /\ LET filename == pdf_files[row.file]
                no == find_no_for_page(index_ranges, filename, row.page)
                doc_filter == [pdf |-> filename, page |-> row.page,
                               Footnote |-> row.text]
                doc_set == [pdf |-> filename, page |-> row.page,
                            Footnote |-> row.text, No |-> no]
                op == UpdateOne(doc_filter, doc_set, TRUE)
            IN  /\ generated' = Append(generated, op)
                /\ Flush(Append(ops, op))
    /\ UNCHANGED <<prog, readervars, footvars, opvars, resvars, runvars, cursor,
                   seen, callvars>>

\* footnote.py:182-187  the files are exhausted
WriteFinish ==
    /\ prog = "process_pdfs_with_no" /\ pc = "loop"
    /\ FinalWrite
    /\ UNCHANGED <<prog, readervars, footvars, opvars, resvars, runvars, pdf_i,
                   cursor, seen, generated, callvars>>

\* footnote.py:139-149  before the file loop: the index is loaded, the
\* footnote collection is empty
WriteInit ==
    /\ prog = "process_pdfs_with_no"
    /\ pc = "loop"
    /\ page_num = -1 /\ npages = 0 /\ last_line = FALSE
    /\ span = NoSpan /\ next_span = NoSpan /\ nspans = 0 /\ nlines = 0
    /\ FootIdle
    /\ OpIdle
    /\ index_col = << Entry("a.pdf", 1, 10, 1), Entry("a.pdf", 11, None, 2) >>
    /\ index_ranges = load_index_ranges(index_col)
    /\ query = <<>>
    /\ no_value = None
    /\ RunIdle
    /\ BatchIdle
    /\ CallIdle

WriteNext ==
    \/ WriteRow
    \/ WriteFinish

\* The documents of a cursor: one the cleanup leaves alone, one with a marker
\* to remove, one with a date to convert
RunDocs ==
    { Field("judges", <<Str(<<"c">>)>>),
      Field("judges", <<Str(<<"a", " ", "[", "*", "1", "]">>)>>),
      Field("Decided", <<Str(A_DATE)>>) }

\* col.find(query): documents with their identifiers
Cursors ==
    UNION { { [k \in 1..n |-> ("_id" :> k) @@ c[k]] : c \in [1..n -> RunDocs] } :
            n \in 0..MaxOps }

\* index_preprocess.py:209-221  one iteration of the cursor loop
IndexDoc ==
    /\ prog = "run" /\ pc = "loop"
    /\ seen < Len(cursor)
    /\ seen' = seen + 1
    /\ LET doc == cursor[seen + 1]
           updates == build_updates(doc)
           op == UpdateOne([_id |-> doc["_id"]], updates, FALSE)
       IN  IF DOMAIN updates # {}
           THEN /\ generated' = Append(generated, op)
                /\ Flush(Append(ops, op))
           ELSE /\ UNCHANGED generated
                /\ Flush(ops)
    /\ UNCHANGED <<prog, readervars, footvars, opvars, resvars, runvars, pdf_i,
                   cursor, callvars>>

\* index_preprocess.py:223-227  the cursor is exhausted
IndexFinish ==
    /\ prog = "run" /\ pc = "loop"
    /\ seen = Len(cursor)
    /\ FinalWrite
    /\ UNCHANGED <<prog, readervars, footvars, opvars, resvars, runvars, pdf_i,
                   cursor, seen, generated, callvars>>

\* index_preprocess.py:191-207  the collection holds the documents of the cursor
IndexInit ==
    /\ prog = "run"
    /\ pc = "loop"
    /\ page_num = -1 /\ npages = 0 /\ last_line = FALSE
    /\ span = NoSpan /\ next_span = NoSpan /\ nspans = 0 /\ nlines = 0
    /\ FootIdle
    /\ OpIdle
    /\ ResIdle
    /\ RunIdle
    /\ pdf_i = 0
    /\ cursor \in Cursors
    /\ seen = 0
    /\ ops = <<>>
    /\ store = {cursor[k] : k \in 1..Len(cursor)}
    /\ bulk_calls = <<>>
    /\ generated = <<>>
    /\ CallIdle

IndexNext ==
    \/ IndexDoc
    \/ IndexFinish

\* either batched writer
SpecBatch == (WriteInit \/ IndexInit) /\ [][WriteNext \/ IndexNext]_vars

-----------------------------------------------------------------------------
(* lexis_metadata_extractor.py: extract_case_metadata_from_page *)

MaxDocPages == 15

local_scan_pages == 2
extended_scan_pages == 13

Min(a, b) == IF a <= b THEN a ELSE b

\* range(a, b)
Range(a, b) == [k \in 1..(b - a) |-> a + k - 1]

\* a range test that lets a negative index through, as doc[-1] would
InRange_NoLowerBound(start, n_pages) == start < n_pages

\* lexis_metadata_extractor.py:67  0 <= start_page_0based < n_pages
InRange(start, n_pages) == 0 <= start /\ start < n_pages

\* lexis_metadata_extractor.py:74-77, 82-85  the pages of a scan window
Window(start, scan_pages, n_pages) ==
    Range(start, Min(start + scan_pages, n_pages))

\* lexis_metadata_extractor.py:65-88  the document is opened and its pages
\* are read; the texts are named by the pages they are joined from
MetaOpen ==
    /\ prog = "extract_case_metadata_from_page" /\ pc = "call"
    /\ IF ~ InRange(call.start_page_0based, call.n_pages)
       THEN /\ pc' = "raised"
            /\ result' = "ValueError"
            /\ UNCHANGED pages_read
       ELSE LET local == Window(call.start_page_0based, local_scan_pages,
                                call.n_pages)
                extended == Window(call.start_page_0based, extended_scan_pages,
                                   call.n_pages)
            IN  /\ pc' = "returned"
                /\ result' = [local_text |-> local, extended_text |-> extended,
                              start_page_blocks |-> call.start_page_0based]
                /\ pages_read' = local \o extended \o <<call.start_page_0based>>
    /\ UNCHANGED <<prog, readervars, footvars, opvars, resvars, runvars, batchvars,
                   call, passes>>

\* a call with any start page, on a document of any length
MetaInit ==
    /\ prog = "extract_case_metadata_from_page"
    /\ pc = "call"
    /\ page_num = -1 /\ npages = 0 /\ last_line = FALSE
    /\ span = NoSpan /\ next_span = NoSpan /\ nspans = 0 /\ nlines = 0
    /\ FootIdle
    /\ OpIdle
    /\ ResIdle
    /\ RunIdle
    /\ BatchIdle
    /\ call \in [n_pages : 0..MaxDocPages, start_page_0based : -2..(MaxDocPages + 1)]
    /\ result = <<>>
    /\ passes = 0
    /\ pages_read = <<>>

MetaNext == MetaOpen

SpecMeta == MetaInit /\ [][MetaNext]_vars

-----------------------------------------------------------------------------
(* lexis_metadata_extractor.py: extract_section *)

MaxText == 6

\* A header text is a sequence of atoms: a label, a newline, a blank or a
\* word.  len() counts the characters of the atoms.
NL == "\n"

CharLen(atom) ==
    CASE atom \in {"Judges:", "JUDGES:"} -> 7
      [] atom \in {"Opinion by:", "opinion by:"} -> 11
      [] atom = "Counsel:" -> 8
      [] atom = "SMITH" -> 5
      [] atom = "SMITH, JONES" -> 12
      [] OTHER -> 1

RECURSIVE TextLen(_)
TextLen(text) == IF text = <<>> THEN 0 ELSE CharLen(Head(text)) + TextLen(Tail(text))

\* flags=re.IGNORECASE: letters compare without regard to case
Fold(atom) ==
    CASE atom = "JUDGES:" -> "Judges:"
      [] atom = "opinion by:" -> "Opinion by:"
      [] OTHER -> atom

\* \s
Whitespace == {" ", NL}

\* lexis_metadata_extractor.py:119  (?=\n(?:end_pat)) holds after position e
Lookahead(text, e, end_labels) ==
    /\ e + 2 <= Len(text)
    /\ text[e + 1] = NL
    /\ Fold(text[e + 2]) \in end_labels

\* ([\s\S]+?) from position c: the ends of a capture of one atom or more
\* that the lookahead accepts
CaptureEnds(text, c, end_labels) ==
    {e \in c..Len(text) : Lookahead(text, e, end_labels)}

\* lexis_metadata_extractor.py:118-121  the pattern matched with the label
\* at position i: \s+ takes the longest run of whitespace that leaves a
\* capture, the capture is the shortest; <<first, last>> of the capture,
\* <<>> when the pattern does not match at i
MatchAt(text, i, start_label, end_labels) ==
    LET blanks == SkipWhile(text, i + 1, Whitespace) - (i + 1)
        ws == {w \in 1..blanks : CaptureEnds(text, i + w + 1, end_labels) # {}}
    IN  IF Fold(text[i]) # start_label \/ ws = {} THEN <<>>
        ELSE LET w == CHOOSE w \in ws : \A u \in ws : u <= w
                 ends == CaptureEnds(text, i + w + 1, end_labels)
             IN  <<i + w + 1, CHOOSE e \in ends : \A d \in ends : e <= d>>

\* re.search: the match at the leftmost position that has one
Search(text, start_label, end_labels) ==
    LET at == {i \in 1..Len(text) : MatchAt(text, i, start_label, end_labels) # <<>>}
    IN  IF at = {} THEN <<>>
        ELSE MatchAt(text, CHOOSE i \in at : \A j \in at : i <= j,
                     start_label, end_labels)

\* .replace("\n", " ")
Spaced(text) == [k \in 1..Len(text) |-> IF text[k] = NL THEN " " ELSE text[k]]

\* the longest prefix of the content that fits
RECURSIVE WithinLen_Truncated(_, _)
WithinLen_Truncated(content, max_len) ==
    IF TextLen(content) <= max_len THEN content
    ELSE WithinLen_Truncated(SubSeq(content, 1, Len(content) - 1), max_len)

\* lexis_metadata_extractor.py:125  content if len(content) <= max_len else ""
WithinLen(content, max_len) ==
    IF TextLen(content) <= max_len THEN content ELSE <<>>

\* lexis_metadata_extractor.py:114-127
extract_section(start_label, end_labels, text, max_len) ==
    LET m == Search(text, start_label, end_labels)
    IN  IF m = <<>> THEN <<>>
        ELSE WithinLen(Strip(Spaced(SubSeq(text, m[1], m[2]))), max_len)

Atoms == {"Judges:", "Counsel:", NL, " ", "S"}

\* the header "Judges: SMITH, JONES\nOpinion by: SMITH", one whose labels
\* are in another case, and one whose Judges section is empty
EXAMPLE == <<"Judges:", " ", "SMITH, JONES", NL, "Opinion by:", " ", "SMITH">>
OTHER_CASE == <<"JUDGES:", " ", "SMITH", NL, "opinion by:">>
EMPTY_SECTION == <<"Judges:", NL, "Opinion by:", " ", "SMITH", NL, "Counsel:">>

Texts ==
    UNION { [1..n -> Atoms] : n \in 0..MaxText }
        \cup {EXAMPLE, OTHER_CASE, EMPTY_SECTION}

\* lexis_metadata_extractor.py:156-161  judges = extract_section(...)
SectionCall ==
    /\ prog = "extract_section" /\ pc = "call"
    /\ result' = extract_section(call.start_label, call.end_labels, call.text,
                                 call.max_len)
    /\ pc' = "returned"
    /\ UNCHANGED <<prog, readervars, footvars, opvars, resvars, runvars, batchvars,
                   call, passes, pages_read>>

\* the call that extracts the judges, on any header text, with the limit of
\* the source and with a short one
SectionInit ==
    /\ prog = "extract_section"
    /\ pc = "call"
    /\ page_num = -1 /\ npages = 0 /\ last_line = FALSE
    /\ span = NoSpan /\ next_span = NoSpan /\ nspans = 0 /\ nlines = 0
    /\ FootIdle
    /\ OpIdle
    /\ ResIdle
    /\ RunIdle
    /\ BatchIdle
    /\ call \in [start_label : {"Judges:"},
                 end_labels : {{"Opinion by:", "Core Terms", "Counsel:"}},
                 text : Texts,
                 max_len : {1, 300}]
    /\ result = <<>>
    /\ passes = 0
    /\ pages_read = <<>>

SectionNext == SectionCall

SpecSection == SectionInit /\ [][SectionNext]_vars

-----------------------------------------------------------------------------
(* lexis_metadata_extractor.py: extract_case_title_by_font *)

MaxTitleSpans == 4

\* "v." in txt
HasVersus(txt) == \E k \in 1..(Len(txt) - 1) : txt[k] = "v" /\ txt[k + 1] = "."

\* a comparison that lets a later span of the same size take over
Larger_OrEqual(size, max_size) == size >= max_size

\* lexis_metadata_extractor.py:225  size > max_size
Larger(size, max_size) == size > max_size

\* lexis_metadata_extractor.py:220-226  the loops over blocks, lines and
\* spans visit the spans in document order
RECURSIVE ScanSpans(_, _, _)
ScanSpans(spans, candidate, max_size) ==
    IF spans = <<>> THEN candidate
    ELSE LET txt == Strip(Head(spans).text)
             size == Head(spans).size
         IN  IF HasVersus(txt) /\ Larger(size, max_size)
             THEN ScanSpans(Tail(spans), txt, size)
             ELSE ScanSpans(Tail(spans), candidate, max_size)

\* lexis_metadata_extractor.py:218-227
extract_case_title_by_font(blocks) == ScanSpans(blocks, <<>>, 0)

\* The spans of a start page, with the sizes PyMuPDF reports (positive): two
\* captions, one padded with blanks, a citation that holds "v." inside a
\* word, and a heading without "v."
TitlePalette ==
    { Span("Times", z, t) :
        z \in {10, 12},
        t \in { <<" ", "A", " ", "v", ".", " ", "B", " ">>,
                <<"C", " ", "v", ".", " ", "D">>,
                <<"R", "e", "v", ".">>,
                <<"O", "p">> } }

\* lexis_metadata_extractor.py:214  title = extract_case_title_by_font(start_page_blocks)
TitleCall ==
    /\ prog = "extract_case_title_by_font" /\ pc = "call"
    /\ result' = extract_case_title_by_font(call)
    /\ pc' = "returned"
    /\ UNCHANGED <<prog, readervars, footvars, opvars, resvars, runvars, batchvars,
                   call, passes, pages_read>>

\* the spans of the blocks of a start page
TitleInit ==
    /\ prog = "extract_case_title_by_font"
    /\ pc = "call"
    /\ page_num = -1 /\ npages = 0 /\ last_line = FALSE
    /\ span = NoSpan /\ next_span = NoSpan /\ nspans = 0 /\ nlines = 0
    /\ FootIdle
    /\ OpIdle
    /\ ResIdle
    /\ RunIdle
    /\ BatchIdle
    /\ call \in UNION { [1..n -> TitlePalette] : n \in 0..MaxTitleSpans }
    /\ result = <<>>
    /\ passes = 0
    /\ pages_read = <<>>

TitleNext == TitleCall

SpecTitle == TitleInit /\ [][TitleNext]_vars

-----------------------------------------------------------------------------
(* The programs *)

Init ==
    \/ FootInit \/ OpInit \/ ResInit \/ RerunInit \/ FootRerunInit
    \/ WriteInit \/ IndexInit \/ CleanupInit
    \/ MetaInit \/ SectionInit \/ TitleInit

Next ==
    \/ FootNext \/ OpNext \/ ResNext \/ RerunNext
    \/ WriteNext \/ IndexNext \/ CleanupNext
    \/ MetaNext \/ SectionNext \/ TitleNext

Spec == Init /\ [][Next]_vars

-----------------------------------------------------------------------------
(* Claims about the footnote accumulator *)

AtFootSpan == prog = "footnote" /\ pc = "span" /\ span # NoSpan

\* the start signature of the current span: target font, size1, and a
\* following span of size2 in the same line
Signature ==
    /\ span.font = "Helvetica" /\ span.size = 6
    /\ next_span # NoSpan /\ next_span.size = 9

MarkerContent == span.text \o <<" ">> \o Strip(next_span.text)

LastRow(rs) == rs[Len(rs)]

\* C1 (as stated): every span that matches the start signature and is followed
\* by a size2 span puts the accumulator in OPEN for that marker, and the row
\* emitted for a footnote begins with its marker text, one space and the
\* following span's stripped text (surrounding whitespace apart, which every
\* row loses).
C1_EveryMarkerOpens ==
    [][ /\ (AtFootSpan /\ Signature) => (collecting' /\ opening' = MarkerContent)
        /\ (prog = "footnote" /\ Len(rows') > Len(rows))
              => IsPrefix(Strip(opening), LastRow(rows')[2]) ]_vars

\* C1 (amended): a span that matches the start signature, is followed by a
\* size2 span and is reached while the accumulator is IDLE puts the
\* accumulator in OPEN with the buffer marker text + one space + the following
\* span's stripped text; the buffer only grows behind that content, and the
\* row emitted for the footnote is that buffer stripped of surrounding
\* whitespace, so it begins with the (stripped) initial content.  A matching
\* span met while a footnote is OPEN opens nothing.
C1_IdleMarkerOpens ==
    [][ /\ (AtFootSpan /\ Signature /\ ~collecting)
              => /\ collecting'
                 /\ footnote_text' = MarkerContent
                 /\ opening' = MarkerContent
                 /\ rows' = rows
        /\ (AtFootSpan /\ collecting /\ collecting')
              => (opening' = opening /\ opened' = opened)
        /\ (prog = "footnote" /\ collecting') => IsPrefix(opening', footnote_text')
        /\ (prog = "footnote" /\ Len(rows') > Len(rows))
              => /\ IsPrefix(opening, footnote_text)
                 /\ LastRow(rows')[2] = Strip(footnote_text)
                 /\ IsPrefix(Strip(opening), LastRow(rows')[2]) ]_vars

\* C1 witness: the marker " 2." followed by "Ab " was met while IDLE and its
\* row, which begins with the stripped content, has been emitted
C1_Witness ==
    /\ prog = "footnote"
    /\ \E k \in 1..Len(rows) : IsPrefix(<<"2", ".", " ", "A", "b">>, rows[k][2])

\* C2: when the accumulator is OPEN, the current span ends with "." and the
\* next span of the line begins with an uppercase letter, the footnote is
\* emitted with the buffer accumulated before that span (stripped, like every
\* row; the triggering span is not appended), the accumulator is IDLE with an
\* empty buffer afterwards, and the triggering span opens nothing.
C2_PunctuationClose ==
    [][ (/\ AtFootSpan /\ collecting
         /\ next_span # NoSpan
         /\ EndsWithPeriod(span.text)
         /\ StartsUpper(next_span.text))
        => /\ rows' = Append(rows, <<page_num + 1, Strip(footnote_text)>>)
           /\ ~collecting'
           /\ footnote_text' = <<>> ]_vars

\* C2 witness: the footnote "1 c." was closed by the span "c." that is
\* followed by "Ab ": three spans were consumed and the row holds "c." once
C2_Witness ==
    /\ prog = "footnote" /\ pc = "span" /\ ~collecting
    /\ span = Span("Helvetica", 9, <<"A", "b", " ">>)
    /\ rows = << <<1, <<"1", " ", "c", ".">> >> >>

\* C3: a footnote still OPEN after the last line of a block is emitted there
\* and the accumulator is IDLE again; every step that emits a row closes the
\* one open footnote and every close emits exactly one row; between blocks,
\* between pages and at the end the accumulator is IDLE with an empty buffer.
C3_ClosedAtBlockEnd ==
    [][ prog = "footnote" =>
        /\ (pc = "span" /\ span = NoSpan /\ last_line /\ collecting)
              => /\ rows' = Append(rows, <<page_num + 1, Strip(footnote_text)>>)
                 /\ ~collecting'
        /\ (pc' \in {"block", "page", "done"})
              => (~collecting' /\ footnote_text' = <<>>)
        /\ (Len(rows') # Len(rows))
              => (collecting /\ ~collecting' /\ Len(rows') = Len(rows) + 1)
        /\ (collecting /\ ~collecting') => Len(rows') = Len(rows) + 1 ]_vars

\* C3 witness: a block ended with a footnote of two spans open, which the
\* punctuation close cannot have emitted, and its row is there
C3_Witness ==
    /\ prog = "footnote" /\ pc = "block"
    /\ nspans = 2 /\ Len(rows) = 1 /\ ~collecting

-----------------------------------------------------------------------------
(* Claims about the opinion accumulator *)

AtOpSpan == prog = "opinion" /\ pc = "span" /\ span # NoSpan

\* the header signature of the current span: Helvetica-Bold, 14.0, "Opinion"
HeaderSig ==
    span.font = "Helvetica-Bold" /\ span.size = 14 /\ Has(span.text, OPINION)

\* the body signature of the current span, with text to append
BodySig ==
    /\ span.size = 10
    /\ span.font \in {"Helvetica", "Helvetica-BoldOblique", "Helvetica-Oblique"}
    /\ Strip(span.text) # <<>>

EndSig == Has(span.text, END_OF_DOCUMENT)

LastRecord(c) == c[Len(c)]

\* the record of the open opinion, closed on page `end` with `content`
OpenRecord(end, content) ==
    [pdf |-> "cp01.pdf", opinion_id |-> opinion_id,
     start_page |-> start_page_1based, end_page |-> end,
     content |-> content, urls_dic |-> urls_dic_accumulated]

\* a header opens the next opinion on its page, with nothing collected
Reopened ==
    /\ opinion_started'
    /\ start_page_1based' = page_num + 1
    /\ page_text' = <<>>
    /\ urls_dic_accumulated' = <<>>

\* no header text in any content
NoHeaderText ==
    /\ ~Has(page_text, OPINION)
    /\ \A k \in 1..Len(collection) : ~Has(collection[k].content, OPINION)

\* C5 (as stated): a header matched on page p while an opinion is OPEN first
\* emits the open opinion with end_page = p - 1 and its own start_page, then
\* opens a new one with start_page = p, an empty buffer and no hyperlinks.
C5_HeaderSupersedes ==
    [][ (AtOpSpan /\ HeaderSig /\ opinion_started)
        => /\ collection' = Append(collection, OpenRecord(page_num, Strip(page_text)))
           /\ Reopened ]_vars

\* C5 (amended): a header matched on page p while an opinion is OPEN with
\* collected text first emits the open opinion with end_page = p - 1 and its
\* own start_page, then opens a new one with start_page = p, an empty buffer
\* and no hyperlinks; the header text is never part of any content.
C5_HeaderSupersedesText ==
    [][ /\ (AtOpSpan /\ HeaderSig /\ opinion_started /\ Strip(page_text) # <<>>)
          => /\ collection' = Append(collection, OpenRecord(page_num, Strip(page_text)))
             /\ opinion_id' = opinion_id + 1
             /\ Reopened
        /\ (prog = "opinion") => NoHeaderText' ]_vars

\* C5 witness: an opinion with text, opened on page 1, was superseded by a
\* header on page 2: its record ends on page 1 and carries page 2's link
C5_Witness ==
    /\ prog = "opinion" /\ opinion_started /\ start_page_1based = 2
    /\ page_text = <<>> /\ urls_dic_accumulated = <<>>
    /\ Len(collection) = 1
    /\ collection[1].start_page = 1 /\ collection[1].end_page = 1
    /\ collection[1].content # <<>>
    /\ \E j \in 1..Len(collection[1].urls_dic) : collection[1].urls_dic[j].link = 2

\* C6 (as stated): a header matched while an opinion is OPEN with no text
\* collected still emits a record for it, with empty content and end_page
\* equal to the header's page minus one.
C6_EmptyOpinionEmitted ==
    [][ (AtOpSpan /\ HeaderSig /\ opinion_started /\ Strip(page_text) = <<>>)
        => /\ Len(collection') = Len(collection) + 1
           /\ LastRecord(collection').content = <<>>
           /\ LastRecord(collection').end_page = page_num ]_vars

\* C6 (amended): a header matched while an opinion is OPEN with no text
\* collected emits no record for it: the identifier is not used up, the
\* accumulated hyperlinks are kept, and the opinion restarts on the header's
\* page.
C6_EmptyOpinionDropped ==
    [][ (AtOpSpan /\ HeaderSig /\ opinion_started /\ Strip(page_text) = <<>>)
        => /\ collection' = collection
           /\ opinion_id' = opinion_id
           /\ urls_dic_accumulated' = urls_dic_accumulated
           /\ page_text' = <<>>
           /\ opinion_started'
           /\ start_page_1based' = page_num + 1 ]_vars

\* C6 witness: the header of page 2 is reached with the opinion of page 1
\* open and nothing collected
C6_Witness ==
    /\ AtOpSpan /\ HeaderSig /\ opinion_started /\ page_text = <<>>
    /\ start_page_1based = 1 /\ page_num + 1 = 2 /\ collection = <<>>

\* the buffer after the current span's own text has been appended
WithCurrent ==
    IF BodySig
    THEN Strip(Remove(page_text \o <<" ">> \o Strip(span.text), PAGE_MARKER))
    ELSE page_text

EndEmission ==
    /\ collection' = Append(collection,
           OpenRecord(page_num + 1, Strip(Remove(WithCurrent, END_OF_DOCUMENT))))
    /\ ~Has(LastRecord(collection').content, END_OF_DOCUMENT)
    /\ opinion_id' = opinion_id + 1
    /\ ~opinion_started'
    /\ page_text' = <<>>
    /\ urls_dic_accumulated' = <<>>

\* C7 (as stated): whenever an opinion is OPEN and a span on page p contains
\* "End of Document", a record is emitted with end_page = p, the recorded
\* start_page and the content without the end marker, and the accumulator is
\* IDLE with an empty buffer and no hyperlinks.
C7_EndMarkerCloses ==
    [][ (AtOpSpan /\ opinion_started /\ EndSig) => EndEmission ]_vars

\* C7 (amended): the same, for a span that is not itself an opinion header (a
\* header is handled by the header branch alone); the record is emitted
\* whether or not any text was collected.
C7_EndMarkerClosesBody ==
    [][ (AtOpSpan /\ opinion_started /\ EndSig /\ ~HeaderSig) => EndEmission ]_vars

\* C7 witness: an end marker closed an opinion for which nothing was collected
C7_Witness ==
    /\ prog = "opinion" /\ ~opinion_started
    /\ Len(collection) = 1 /\ collection[1].content = <<>>
    /\ collection[1].end_page = collection[1].start_page

\* C8: the identifiers of the emitted records are 0, 1, 2, ... in emission order
C8_SequentialIds ==
    prog = "opinion" =>
        \A k \in 1..Len(collection) : collection[k].opinion_id = k - 1

\* C8 witness: a record closed by an end marker, then one by the final flush
C8_Witness ==
    /\ prog = "opinion" /\ pc = "done"
    /\ opinion_started /\ page_text # <<>>
    /\ Len(collection) = 2 /\ collection[2].content = page_text

\* C9 (as stated): the hyperlinks of an emitted record come from pages visited
\* while that opinion was open, hence from no page before its start page.
C9_LinksOfOpenPages ==
    prog = "opinion" =>
        \A k \in 1..Len(collection) :
            \A j \in 1..Len(collection[k].urls_dic) :
                collection[k].urls_dic[j].link >= collection[k].start_page

-----------------------------------------------------------------------------
(* Claims about both accumulators *)

\* C4: at the end of the document an open segment with text is emitted once.
\* The footnote accumulator has closed every opened footnote at its block end,
\* so each was emitted once and the final flush adds none; the opinion
\* accumulator emits the open opinion with text once, under an identifier no
\* earlier record has, with end_page = the page count, and emits nothing
\* otherwise.
C4_FinalFlush ==
    [][ /\ (prog = "footnote" /\ pc' = "done")
          => /\ rows' = IF collecting /\ Strip(footnote_text) # <<>>
                        THEN Append(rows, <<page_num + 1, Strip(footnote_text)>>)
                        ELSE rows
             /\ Len(rows') = opened
        /\ (prog = "opinion" /\ pc' = "done")
          => IF opinion_started /\ Strip(page_text) # <<>>
             THEN /\ collection' = Append(collection, OpenRecord(npages, Strip(page_text)))
                  /\ \A k \in 1..Len(collection) :
                         collection[k].opinion_id # opinion_id
             ELSE collection' = collection ]_vars

\* C4 witness: the document ended with an opinion open and its text was saved
\* with the page count as end page
C4_Witness ==
    /\ prog = "opinion" /\ pc = "done" /\ npages = 2
    /\ opinion_started /\ page_text # <<>>
    /\ collection # <<>>
    /\ LastRecord(collection).content = page_text
    /\ LastRecord(collection).end_page = 2

-----------------------------------------------------------------------------
(* Claims about the page-range resolver *)

\* the index documents of the queried pdf that hold the queried page
Holding(k) ==
    LET e == index_col[k]
        page == query[2]
    IN  /\ e.pdf = query[1]
        /\ IF e.end_page # None THEN e.page <= page /\ page <= e.end_page
                                ELSE page >= e.page

\* index document k comes before index document j in ascending start-page
\* order (documents with one start page keep their order)
Before(k, j) ==
    \/ index_col[k].page < index_col[j].page
    \/ index_col[k].page = index_col[j].page /\ k <= j

\* the ranges 1-10 of unit 1 and 11-open of unit 2
ExampleTable == << Entry("a.pdf", 1, 10, 1), Entry("a.pdf", 11, None, 2) >>

\* C10: the resolver returns the unit of the first range, in ascending
\* start-page order, that holds the page, and None when the document is
\* unknown or no range holds the page; on the table 1-10 -> 1, 11-open -> 2 it
\* resolves page 5 to 1, page 15 to 2 and page 0 to None.
C10_FirstRangeInStartOrder ==
    (prog = "resolver" /\ query # <<>>) =>
        LET holding == {k \in 1..Len(index_col) : Holding(k)}
        IN  /\ (holding = {}) => no_value = None
            /\ (holding # {}) =>
                   \E k \in holding :
                       /\ \A j \in holding : Before(k, j)
                       /\ no_value = index_col[k].No
            /\ (index_col = ExampleTable /\ query = <<"a.pdf", 5>>) => no_value = 1
            /\ (index_col = ExampleTable /\ query = <<"a.pdf", 15>>) => no_value = 2
            /\ (index_col = ExampleTable /\ query = <<"a.pdf", 0>>) => no_value = None

\* C10 witness: a range that starts earlier was stored after a range that
\* starts later, both hold page 5, and the earlier-starting one is returned
C10_Witness ==
    /\ prog = "resolver"
    /\ index_col = << Entry("a.pdf", 3, None, 3), Entry("a.pdf", 1, 10, 1) >>
    /\ query = <<"a.pdf", 5>>
    /\ no_value = 1

\* C11: an open-ended range holds only the pages from its start up to the
\* start of the next range of the same pdf: the resolver never returns the
\* unit of an open-ended range for a page at or after the start of a range of
\* that pdf that starts later.
C11_OpenRangeEndsAtNextStart ==
    (prog = "resolver" /\ query # <<>>) =>
        \A k \in 1..Len(index_col) :
            (/\ index_col[k].pdf = query[1]
             /\ index_col[k].end_page = None
             /\ index_col[k].No = no_value)
            => ~ \E j \in 1..Len(index_col) :
                     /\ index_col[j].pdf = query[1]
                     /\ index_col[j].page > index_col[k].page
                     /\ index_col[j].page <= query[2]

-----------------------------------------------------------------------------
(* Claims about persistence *)

Batching == prog \in {"process_pdfs_with_no", "run"}

\* the operations of the batches, one batch after the other
RECURSIVE Concat(_)
Concat(batches) ==
    IF batches = <<>> THEN <<>> ELSE Head(batches) \o Concat(Tail(batches))

\* the batches whose bulk_write returned: all but the one that raised
Written ==
    IF pc = "raised" THEN SubSeq(bulk_calls, 1, Len(bulk_calls) - 1)
    ELSE bulk_calls

\* C12 as stated: at every moment the written batches followed by the buffer
\* are the operations generated so far, the buffer holds at most BATCH_SIZE
\* operations, and when the run has finished the buffer is empty and the
\* batches are the generated operations.
C12_BufferEmptyAtEnd ==
    Batching =>
        /\ Concat(Written) \o ops = generated
        /\ Len(ops) <= BATCH_SIZE
        /\ pc = "done" => (ops = <<>> /\ Concat(bulk_calls) = generated)

\* C12: while the run is in its loop, and when a write has raised, the
\* written batches followed by the buffer are the operations generated so
\* far, in order; the buffer holds at most BATCH_SIZE operations, and fewer
\* between two iterations; every batch holds between 1 and BATCH_SIZE
\* operations; when the run has finished the batches are the generated
\* operations, each in one batch, and the list ops still holds the operations
\* of the final write when there was one.
C12_BatchesAreGenerated ==
    Batching =>
        /\ pc # "done" => Concat(Written) \o ops = generated
        /\ Len(ops) <= BATCH_SIZE
        /\ pc = "loop" => Len(ops) < BATCH_SIZE
        /\ \A k \in 1..Len(bulk_calls) :
               Len(bulk_calls[k]) \in 1..BATCH_SIZE
        /\ pc = "done" =>
               /\ Concat(bulk_calls) = generated
               /\ IF Len(generated) % BATCH_SIZE = 0 THEN ops = <<>>
                  ELSE ops = bulk_calls[Len(bulk_calls)]

\* C12 witness: a run that wrote a full batch in the loop and the rest at the
\* end, two operations of it equal
C12_Witness ==
    /\ Batching /\ pc = "done"
    /\ Len(bulk_calls) >= 2
    /\ Len(bulk_calls[Len(bulk_calls)]) < BATCH_SIZE
    /\ \E i, j \in 1..Len(generated) : i # j /\ generated[i] = generated[j]

\* an operation of an earlier batch is in the store: a document matches its
\* filter and carries the values it set
Kept(docs, op) == \E d \in docs : Matches(d, op.filter) /\ Matches(d, op.set)

\* C13: a bulk_write that does not apply its whole batch ends the run with
\* the exception; after the exception the run takes no step, so that no batch
\* is handed to bulk_write again; and what the batches before it wrote is
\* still in the store.
C13_FailureLeavesTheRun ==
    [][ /\ pc # "raised"
        /\ bulk_calls' # bulk_calls =>
             LET batch == bulk_calls'[Len(bulk_calls')]
             IN  /\ bulk_calls' = Append(bulk_calls, batch)
                 /\ store' # ApplyAll(store, batch) => pc' = "raised"
                 /\ pc' = "raised" =>
                        /\ generated' = Concat(bulk_calls) \o batch
                        /\ \A k \in 1..Len(bulk_calls) :
                               \A n \in 1..Len(bulk_calls[k]) :
                                   Kept(store', bulk_calls[k][n])
      ]_vars

\* C13 witness: a write raised after an earlier batch was written, and the
\* store holds a document
C13_Witness ==
    /\ Batching /\ pc = "raised"
    /\ Len(bulk_calls) >= 2
    /\ store # {}
    /\ \E n \in 1..Len(ops) : ~ Kept(store, ops[n])

\* C14: a second run on the unchanged document leaves no duplicate records:
\* during and after the second run of the opinion script no two records of
\* the collection are equal.
C14_RerunLeavesNoDuplicates ==
    (prog = "opinion" /\ run = 2) =>
        \A i, j \in 1..Len(collection) :
            i # j => collection[i] # collection[j]

-----------------------------------------------------------------------------
(* Claims about the index cleanup *)

\* C20: the cleanup is safe to re-run: the updates a run builds hold only
\* fields whose new value differs from the document's, and a run over a
\* document that has the updates of the run before applied builds no updates.
C20_CleanupIdempotent ==
    (prog = "cleanup" /\ passes >= 1) =>
        /\ \A f \in DOMAIN result : f \in DOMAIN call /\ result[f] # call[f]
        /\ passes >= 2 => result = <<>>

-----------------------------------------------------------------------------
(* Claims about the metadata extraction *)

\* C15: a start page outside 0 <= start < page_count is rejected with an
\* error before any page is read, and nothing is returned; for a start page
\* inside, the local and the extended window are the pages from start to
\* min(start + window, page_count) - 1, in order.
C15_StartPageChecked ==
    (prog = "extract_case_metadata_from_page" /\ pc # "call") =>
        LET start == call.start_page_0based
            n == call.n_pages
        IN  IF start < 0 \/ start >= n
            THEN pc = "raised" /\ pages_read = <<>>
            ELSE /\ pc = "returned"
                 /\ \A w \in {<<result.local_text, 2>>, <<result.extended_text, 13>>} :
                        LET last == (IF start + w[2] <= n THEN start + w[2] ELSE n) - 1
                        IN  /\ Len(w[1]) = last - start + 1
                            /\ \A k \in 1..Len(w[1]) : w[1][k] = start + k - 1
                 /\ \A k \in 1..Len(pages_read) :
                        pages_read[k] \in 0..(n - 1)

\* C15 witness: a call whose start page is the page count was rejected, and
\* no page was read
C15_Witness ==
    /\ prog = "extract_case_metadata_from_page"
    /\ pc = "raised"
    /\ call.start_page_0based = 3 /\ call.n_pages = 3
    /\ pages_read = <<>>

\* the text from position c to position e stands between whitespace after
\* an occurrence of the start label and a newline followed by a terminator
SectionBounds(c, e) ==
    /\ 3 <= c /\ c <= e
    /\ \E i \in 1..(c - 2) :
           /\ call.text[i] \in {"Judges:", "JUDGES:"}
           /\ \A k \in (i + 1)..(c - 1) : call.text[k] \in {" ", "\n"}
    /\ e + 2 <= Len(call.text)
    /\ call.text[e + 1] = "\n"
    /\ call.text[e + 2] \in {"Opinion by:", "opinion by:", "Counsel:"}

\* the sections of the text, newlines replaced by blanks and the ends trimmed
Sections ==
    {Strip([k \in 1..(ce[2] - ce[1] + 1) |->
                IF call.text[ce[1] + k - 1] = "\n" THEN " "
                ELSE call.text[ce[1] + k - 1]]) :
        ce \in {x \in (1..Len(call.text)) \X (1..Len(call.text)) :
                    SectionBounds(x[1], x[2])}}

\* C16: the result is the empty string or a complete section of the text
\* whose length is at most max_len; of a text whose only section is longer
\* than max_len the result is the empty string.
C16_WholeSectionOrEmpty ==
    (prog = "extract_section" /\ pc = "returned") =>
        /\ result # <<>> =>
               /\ result \in Sections
               /\ TextLen(result) <= call.max_len
        /\ (\A sec \in Sections : TextLen(sec) > call.max_len) => result = <<>>

\* C16 witness: the one section of the text is longer than max_len and the
\* result is empty
C16_Witness ==
    /\ prog = "extract_section" /\ pc = "returned"
    /\ call.text = <<"Judges:", " ", "S", "S", "\n", "Counsel:">>
    /\ call.max_len = 1
    /\ result = <<>>

\* C17: the result is the text after the first occurrence of the start label
\* up to the first terminator label after it that stands at the start of a
\* line, newlines replaced by blanks and the ends trimmed, and it is empty
\* when the start label does not occur; of the example header it is
\* "SMITH, JONES".  (Stated for sections within max_len.)
C17_TextUpToFirstTerminator ==
    (prog = "extract_section" /\ pc = "returned" /\ call.max_len = 300) =>
        LET text == call.text
            labels == {i \in 1..Len(text) : text[i] \in {"Judges:", "JUDGES:"}}
            first == CHOOSE i \in labels : \A j \in labels : i <= j
            terminators == {t \in 2..Len(text) :
                               /\ t > first
                               /\ text[t - 1] = "\n"
                               /\ text[t] \in {"Opinion by:", "opinion by:", "Counsel:"}}
            stop == CHOOSE t \in terminators : \A u \in terminators : t <= u
        IN  /\ labels = {} => result = <<>>
            /\ (labels # {} /\ terminators # {}) =>
                   result = Strip([k \in 1..(stop - first - 1) |->
                                      IF text[first + k] = "\n" THEN " "
                                      ELSE text[first + k]])
            /\ text = EXAMPLE => result = <<"SMITH, JONES">>

\* the spans of the call that hold "v."
Versus ==
    {k \in 1..Len(call) :
        \E n \in 1..(Len(call[k].text) - 1) :
            call[k].text[n] = "v" /\ call[k].text[n + 1] = "."}

\* C18: the result is the text of the first span, in document order, among
\* the spans that hold "v." and have the largest size of these; it is the
\* empty string when no span holds "v.".
C18_FirstLargestVersusSpan ==
    (prog = "extract_case_title_by_font" /\ pc = "returned") =>
        IF Versus = {} THEN result = <<>>
        ELSE \E k \in Versus :
                 /\ \A j \in Versus : call[j].size <= call[k].size
                 /\ \A j \in Versus : call[j].size = call[k].size => k <= j
                 /\ result = Strip(call[k].text)

\* C18 witness: a smaller caption comes first, then two spans of the largest
\* size that hold "v.", and the first of the two is returned
C18_Witness ==
    /\ prog = "extract_case_title_by_font" /\ pc = "returned"
    /\ call = << Span("Times", 10, <<"C", " ", "v", ".", " ", "D">>),
                 Span("Times", 12, <<" ", "A", " ", "v", ".", " ", "B", " ">>),
                 Span("Times", 12, <<"R", "e", "v", ".">>) >>
    /\ result = <<"A", " ", "v", ".", " ", "B">>

-----------------------------------------------------------------------------
(* Claims about the footnote rows *)

\* C19: every step that emits a footnote row appends one row to the rows and
\* the row carries the 1-based number of the page that is being processed at
\* that moment, whichever path closes the footnote.
C19_RowCarriesPageOfEmission ==
    [][ (prog = "footnote" /\ rows' # rows) =>
            /\ Len(rows') = Len(rows) + 1
            /\ SubSeq(rows', 1, Len(rows)) = rows
            /\ rows'[Len(rows')][1] = page_num + 1
            /\ page_num' = page_num
            /\ page_num + 1 \in 1..npages
      ]_vars

\* C19 witness: a row was emitted while the second page was processed
C19_Witness ==
    /\ prog = "footnote"
    /\ page_num = 1
    /\ rows # <<>>
    /\ rows[Len(rows)][1] = 2

-----------------------------------------------------------------------------
(* Claims about two runs on one document *)

SecondRun == run = 2

\* what the second opinion run has inserted so far
Inserted == SubSeq(collection, Len(first_run) + 1, Len(collection))

C21_FootWitness ==
    /\ SecondRun /\ prog = "footnote" /\ pc = "done"
    /\ Len(first_run) = 2
    /\ first_run[1] # first_run[2]
    /\ Len(rows) = 2

-----------------------------------------------------------------------------
(* Claims about the pages and the text of opinion segments *)

\* C22: every opinion segment emitted, whether superseded by a new header,
\* closed by the end marker or flushed at the end of the document, has
\* start_page <= end_page.
C22_StartNotAfterEnd ==
    prog = "opinion" =>
        \A i \in 1..Len(collection) :
            collection[i].start_page <= collection[i].end_page

-----------------------------------------------------------------------------
(* Claims about the spans of a footnote *)

\* the span at hand is the one that follows the start marker: the footnote
\* was opened by the previous span and the buffer is the initial content,
\* which already holds this span's text
AtFollower == AtFootSpan /\ collecting /\ footnote_text = opening

\* C23: in every emitted footnote each consumed span contributes its text at
\* most once: the span that immediately follows the start marker is in the
\* buffer as part of the initial content, so consuming it adds nothing to the
\* buffer, and a footnote emitted right then holds the initial content only.
C23_FollowerCountedOnce ==
    [][ AtFollower =>
          /\ collecting' => footnote_text' = footnote_text
          /\ Len(rows') > Len(rows) => LastRow(rows')[2] = Strip(opening)
      ]_vars

\* C24: whenever the opinion accumulator is IDLE (before the first header and
\* after every end-marker emission) its text buffer is empty; a body-signature
\* span consumed while IDLE changes neither the buffer, the identifier counter
\* nor the start page and emits nothing, and the header that ends the IDLE
\* period opens the next opinion with the empty buffer, so that no text seen
\* while IDLE is in a later segment.
C24_IdleCollectsNothing ==
    [][ /\ (prog = "opinion" /\ ~opinion_started) => page_text = <<>>
        /\ (prog = "opinion" /\ ~opinion_started') => page_text' = <<>>
        /\ (AtOpSpan /\ ~opinion_started /\ BodySig)
              => /\ page_text' = <<>>
                 /\ opinion_id' = opinion_id
                 /\ start_page_1based' = start_page_1based
                 /\ collection' = collection
                 /\ ~opinion_started'
        /\ (AtOpSpan /\ ~opinion_started /\ HeaderSig)
              => /\ page_text' = <<>>
                 /\ collection' = collection
                 /\ opinion_started'
      ]_vars

\* C24 witness: the accumulator is IDLE after an end-marker emission that
\* closed an opinion with text, and a body-signature span with text, itself
\* carrying the end marker, is at hand
C24_Witness ==
    /\ AtOpSpan /\ ~opinion_started /\ BodySig /\ EndSig
    /\ Len(collection) = 1
    /\ collection[1].content # <<>>
    /\ opinion_id = 1
    /\ start_page_1based # None

=============================================================================
